---- MODULE Spec2Model ----
(***************************************************************************)
(* Model of the gamepass aggregation handler of src/src/main.rs:          *)
(* get_passes, fetch_passes_from_public_games, fetch_passes_from_catalog. *)
(*                                                                         *)
(* One request is served at a time by the modelled handler; every local   *)
(* of the handler is a variable, every upstream call is a step whose      *)
(* reply is chosen by the environment.  JSON values that may be absent or *)
(* of the wrong type are options: <<>> is None, <<v>> is Some(v).         *)
(* A signed 64-bit integer is a tuple of four 16-bit limbs, least         *)
(* significant first, in two's complement, so that the cast to i32 keeps  *)
(* its real width.                                                         *)
(***************************************************************************)
EXTENDS Integers, Sequences, FiniteSets, TLC

VARIABLES
    pc,             \* position of the handler
    user_id,        \* Path(user_id) of the request being served
    result,         \* fetch_passes_from_public_games: result
    seen_ids,       \* fetch_passes_from_public_games: seen_ids
    universe_ids,   \* fetch_passes_from_public_games: universe_ids
    gi,             \* index of the game the outer loop is at
    passes_arr,     \* passes_arr of the game the outer loop is at
    pi,             \* index of the pass the inner loop is at
    passes,         \* get_passes: passes
    response,       \* the ApiResponse sent, <<>> while there is none
    games_upstream, \* the games listing call in flight: fault and pages served
    games_requests, \* number of games listing requests issued for this request
    queried,        \* the game-passes listing calls made, in order: the
                    \* universe id and whether the call failed
    detail_log,     \* the detail lookups made, in order, with what they returned
    listed,         \* pass ids that the game-passes listings received carried
    dup_skipped,    \* pass ids skipped at least once because already seen
    calls,          \* the sources get_passes has called, in order
    returns,        \* the list each source call returned, in order
    catalog_reply   \* the reply the catalog call got, <<>> while there is none

vars == <<pc, user_id, result, seen_ids, universe_ids, gi, passes_arr, pi,
          passes, response, games_upstream, games_requests, queried,
          detail_log, listed, dup_skipped, calls, returns, catalog_reply>>

-----------------------------------------------------------------------------
(* Bounds of the model. *)

\* most entries in one upstream array (games of a page, passes of a game,
\* items of the catalog reply)
MaxLen == 2
\* most pages of the upstream games listing
MaxPages == 2

-----------------------------------------------------------------------------
(* Options and signed integers. *)

None == <<>>
Some(v) == <<v>>
IsSome(o) == o # <<>>
Unwrap(o) == o[1]
UnwrapOr(o, d) == IF o = <<>> THEN d ELSE o[1]
OrElse(o, alt) == IF o = <<>> THEN alt ELSE o

\* i64 values, four 16-bit limbs, least significant first
I64Zero == <<0, 0, 0, 0>>
I64MinusOne == <<65535, 65535, 65535, 65535>>
I64Fifty == <<50, 0, 0, 0>>
I64TwoPow31 == <<0, 32768, 0, 0>>
I64TwoPow32Plus50 == <<50, 0, 1, 0>>

I64IsNegative(x) == x[4] >= 32768
\* price_i64 <= 0
I64LeqZero(x) == I64IsNegative(x) \/ x = I64Zero

\* `x as i32`: the low 32 bits, read as two's complement
AsI32(x) ==
    IF x[2] >= 32768
    THEN (x[2] - 65536) * 65536 + x[1]
    ELSE x[2] * 65536 + x[1]

\* the i64 that an i32 widens to (sign extension)
I64FromI32(v) ==
    IF v >= 0
    THEN <<v % 65536, v \div 65536, 0, 0>>
    ELSE <<v % 65536, (v \div 65536) + 65536, 65535, 65535>>

-----------------------------------------------------------------------------
(* Sequences. *)

\* all sequences over S of length at most n
SeqUpTo(S, n) == UNION {[1..k -> S] : k \in 0..n}

RECURSIVE SumLen(_)
SumLen(ss) == IF ss = <<>> THEN 0 ELSE Len(Head(ss)) + SumLen(Tail(ss))

RECURSIVE Flatten(_)
Flatten(ss) == IF ss = <<>> THEN <<>> ELSE Head(ss) \o Flatten(Tail(ss))

Range(s) == {s[i] : i \in 1..Len(s)}

\* ids of the Gamepass records of a list, in order
Ids(ps) == [i \in 1..Len(ps) |-> ps[i].id]

NoDuplicates(s) == \A i, j \in 1..Len(s) : s[i] = s[j] => i = j

-----------------------------------------------------------------------------
(* What the upstream services may answer. *)

\* how a listing call can end: reqwest error, non-success status, body that
\* is not JSON, JSON without a "data" array, or a usable reply
Faults == {"transport", "status", "decode", "nodata", "none"}

Users == {123, 456}
GameIds == {10, 20}
\* the two price fields of a detail record, PriceInRobux and Price, each
\* absent (or not an integer) or an i64
DetailPrices ==
    {<<None, None>>, <<None, Some(I64Fifty)>>, <<Some(I64Zero), Some(I64Fifty)>>,
     <<Some(I64Fifty), None>>, <<Some(I64MinusOne), None>>,
     <<Some(I64TwoPow31), None>>, <<Some(I64TwoPow32Plus50), None>>}

\* one element of the "data" array of the user-games listing
GameEntries == {[id |-> None]} \cup {[id |-> Some(g)] : g \in GameIds}

\* the pass ids of a game-passes data array
PassIdsOf(arr) == {Unwrap(arr[i].id) : i \in {j \in 1..Len(arr) : IsSome(arr[j].id)}}

\* the universe ids of a data array: entries without a u64 "id" are skipped
RECURSIVE CollectUniverseIds(_)
CollectUniverseIds(arr) ==
    IF arr = <<>> THEN <<>>
    ELSE (IF IsSome(Head(arr).id) THEN <<Unwrap(Head(arr).id)>> ELSE <<>>)
            \o CollectUniverseIds(Tail(arr))

\* the user-games listing as the platform serves it: one data array per
\* page, every page but the last carrying a nextPageCursor; a game is
\* listed once
GamesListings ==
    {p \in SeqUpTo(SeqUpTo(GameEntries, MaxLen), MaxPages) :
        /\ Len(p) >= 1
        /\ SumLen(p) <= MaxLen
        /\ NoDuplicates(CollectUniverseIds(Flatten(p)))}

\* one element of the "data" array of a game-passes listing
PassEntries ==
    {[id |-> None, name |-> Some("Sword")],
     [id |-> Some(1), name |-> Some("Sword")],
     [id |-> Some(2), name |-> None]}

PassArrays == SeqUpTo(PassEntries, MaxLen)

\* the body of an asset-detail reply that decodes as JSON
DetailBodies ==
    {[PriceInRobux |-> p[1], Price |-> p[2], Creator |-> c] :
        p \in DetailPrices, c \in Users}

\* an asset-detail call: a reqwest error, or a reply with a status and a
\* body that decodes (Some) or does not (None)
DetailReplies ==
    {[transport |-> TRUE, success |-> FALSE, body |-> None]}
        \cup {[transport |-> FALSE, success |-> s, body |-> b] :
                s \in BOOLEAN, b \in {None} \cup {Some(d) : d \in DetailBodies}}

\* one element of the "data" array of the catalog reply
CatalogItems ==
    {[assetType |-> Some(46), id |-> Some(1), name |-> Some("Sword"), price |-> Some(I64Fifty)],
     [assetType |-> Some(46), id |-> Some(1), name |-> None, price |-> Some(I64Zero)],
     [assetType |-> Some(46), id |-> Some(2), name |-> None, price |-> Some(I64TwoPow31)],
     [assetType |-> Some(46), id |-> Some(2), name |-> Some("Sword"), price |-> None],
     [assetType |-> Some(46), id |-> None, name |-> Some("Sword"), price |-> Some(I64Fifty)],
     [assetType |-> Some(8), id |-> Some(2), name |-> Some("Sword"), price |-> Some(I64Fifty)],
     [assetType |-> None, id |-> Some(1), name |-> Some("Sword"), price |-> Some(I64Fifty)],
     [assetType |-> Some(46), id |-> Some(2), name |-> Some("Sword"), price |-> Some(I64MinusOne)]}

CatalogReplies ==
    {[fault |-> f, items |-> <<>>] : f \in Faults \ {"none"}}
        \cup {[fault |-> "none", items |-> a] : a \in SeqUpTo(CatalogItems, MaxLen)}

-----------------------------------------------------------------------------
(* fetch_passes_from_public_games *)

Gamepass(id, name, price) == [id |-> id, name |-> name, price |-> price]

\* what the single listing request gets back of a paged listing
FirstPage(pages) == pages[1]

\* the games listing requests the source issues for a paged listing
GamesRequestsFor(pages) == 1

\* faulty variant: a failed game-passes call ends the outer loop (`break`)
AfterListingFailure_Break(g, n) == n + 1

\* `continue` after a failed game-passes call: on to the next game
AfterListingFailure(g, n) == g + 1

\* faulty variant: no id is ever taken as seen
AlreadySeen_Never(seen, id) == FALSE

\* seen_ids.insert(id) returned false
AlreadySeen(seen, id) == id \in seen

\* the set after seen_ids.insert(id)
Insert(seen, id) == seen \cup {id}

\* PriceInRobux, or else Price, or else 0
DetailPrice(d) == UnwrapOr(OrElse(d.PriceInRobux, d.Price), I64Zero)

\* whether the detail reply is taken: `if let Ok(detail_resp)` and
\* `if let Ok(details)`; the status of the reply is not looked at
DetailTaken(r) == ~r.transport /\ IsSome(r.body)

\* faulty variant: the id is inserted only once its pass has been pushed
MarkSeen_OnPush(seen, id, r) ==
    IF DetailTaken(r) /\ ~I64LeqZero(DetailPrice(Unwrap(r.body)))
    THEN Insert(seen, id)
    ELSE seen

\* seen_ids once the detail lookup of pass id has returned r: the id was
\* inserted before the lookup was made, whatever it returns
MarkSeen(seen, id, r) == Insert(seen, id)

\* result after the detail reply r for pass (id, name)
PushDetail(res, id, name, r) ==
    IF DetailTaken(r) /\ ~I64LeqZero(DetailPrice(Unwrap(r.body)))
    THEN Append(res, Gamepass(id, name, AsI32(DetailPrice(Unwrap(r.body)))))
    ELSE res

\* what the log keeps of the detail lookup of pass id: how the call ended,
\* whether the price the body carries is > 0, and the creator it reports
DetailRecord(id, r) ==
    [id |-> id,
     transport |-> r.transport,
     success |-> r.success,
     decoded |-> IsSome(r.body),
     positive |-> IsSome(r.body) /\ ~I64LeqZero(DetailPrice(Unwrap(r.body))),
     creator |-> IF IsSome(r.body) THEN Some(Unwrap(r.body).Creator) ELSE None]

\* name, or "GamePass" when it is absent
PassName(entry) == UnwrapOr(entry.name, "GamePass")

-----------------------------------------------------------------------------
(* fetch_passes_from_catalog *)

GamePassAssetType == 46

AssetTypeId(item) == UnwrapOr(item.assetType, 0)

RECURSIVE CatalogLoop(_, _, _)
CatalogLoop(items, seen, res) ==
    IF items = <<>> THEN res
    ELSE LET item == Head(items)
             rest == Tail(items)
         IN  IF AssetTypeId(item) # GamePassAssetType
                THEN CatalogLoop(rest, seen, res)
             ELSE IF ~IsSome(item.id)
                THEN CatalogLoop(rest, seen, res)
             ELSE IF AlreadySeen(seen, Unwrap(item.id))
                THEN CatalogLoop(rest, seen, res)
             ELSE IF I64LeqZero(UnwrapOr(item.price, I64Zero))
                THEN CatalogLoop(rest, Insert(seen, Unwrap(item.id)), res)
             ELSE CatalogLoop(rest, Insert(seen, Unwrap(item.id)),
                        Append(res, Gamepass(Unwrap(item.id),
                                             UnwrapOr(item.name, "GamePass"),
                                             AsI32(Unwrap(item.price)))))

fetch_passes_from_catalog(reply) ==
    IF reply.fault # "none" THEN <<>> ELSE CatalogLoop(reply.items, {}, <<>>)

-----------------------------------------------------------------------------
(* get_passes *)

\* faulty variant: the catalog is called whatever the first source returned
NeedsFallback_Always(p) == TRUE

\* passes.is_empty()
NeedsFallback(p) == p = <<>>

\* faulty variant: ok reports whether any pass was found
ApiResponse_OkIfAny(uid, p) ==
    [ok |-> p # <<>>, userId |-> uid, count |-> Len(p), passes |-> p]

ApiResponse(uid, p) == [ok |-> TRUE, userId |-> uid, count |-> Len(p), passes |-> p]

-----------------------------------------------------------------------------
(* The handler, step by step. *)

Init ==
    /\ pc = "idle"
    /\ user_id = 0
    /\ result = <<>>
    /\ seen_ids = {}
    /\ universe_ids = <<>>
    /\ gi = 0
    /\ passes_arr = <<>>
    /\ pi = 0
    /\ passes = <<>>
    /\ response = None
    /\ games_upstream = None
    /\ games_requests = 0
    /\ queried = <<>>
    /\ detail_log = <<>>
    /\ listed = {}
    /\ dup_skipped = {}
    /\ calls = <<>>
    /\ returns = <<>>
    /\ catalog_reply = None

\* A request arrives: get_passes calls fetch_passes_from_public_games, which
\* creates its result and seen_ids and issues the games listing request.
Request ==
    /\ pc = "idle"
    /\ \E u \in Users, fault \in Faults, pages \in GamesListings :
        /\ user_id' = u
        /\ games_upstream' = Some([fault |-> fault, pages |-> pages])
        /\ games_requests' = GamesRequestsFor(pages)
    /\ pc' = "await_games"
    /\ result' = <<>>
    /\ seen_ids' = {}
    /\ calls' = <<"public_games">>
    /\ UNCHANGED <<universe_ids, gi, passes_arr, pi, passes, response, queried,
                   detail_log, listed, dup_skipped, returns, catalog_reply>>

\* The games listing call returns: on any fault the function returns its
\* empty result; otherwise the universe ids of the reply are collected.
RecvGames ==
    /\ pc = "await_games"
    /\ games_upstream' = None
    /\ IF Unwrap(games_upstream).fault # "none"
       THEN /\ pc' = "check"
            /\ passes' = result
            /\ returns' = Append(returns, result)
            /\ UNCHANGED <<universe_ids, gi>>
       ELSE /\ pc' = "game_loop"
            /\ universe_ids' = CollectUniverseIds(FirstPage(Unwrap(games_upstream).pages))
            /\ gi' = 1
            /\ UNCHANGED <<passes, returns>>
    /\ UNCHANGED <<user_id, result, seen_ids, passes_arr, pi, response,
                   games_requests, queried, detail_log, listed, dup_skipped,
                   calls, catalog_reply>>

\* where the outer loop goes once the passes of game g are done
NextGame(g) == g + 1

\* One game: its game-passes listing is requested; a fault skips the game.
GamePasses ==
    /\ pc = "game_loop"
    /\ gi <= Len(universe_ids)
    /\ \E fault \in Faults, arr \in PassArrays :
        /\ queried' = Append(queried, [universe_id |-> universe_ids[gi],
                                       failed |-> fault # "none"])
        /\ IF fault # "none"
           THEN /\ gi' = AfterListingFailure(gi, Len(universe_ids))
                /\ UNCHANGED <<pc, passes_arr, pi, listed>>
           ELSE IF arr = <<>>
           THEN /\ gi' = NextGame(gi)
                /\ UNCHANGED <<pc, passes_arr, pi, listed>>
           ELSE /\ pc' = "pass_loop"
                /\ passes_arr' = arr
                /\ pi' = 1
                /\ listed' = listed \cup PassIdsOf(arr)
                /\ UNCHANGED gi
    /\ UNCHANGED <<user_id, result, seen_ids, universe_ids, passes, response,
                   games_upstream, games_requests, detail_log, dup_skipped,
                   calls, returns, catalog_reply>>

\* the loop position after the pass at index pi; passes_arr ends with the
\* iteration of the outer loop
AfterPass ==
    IF pi < Len(passes_arr)
    THEN /\ pi' = pi + 1
         /\ UNCHANGED <<pc, gi, passes_arr>>
    ELSE /\ pc' = "game_loop"
         /\ gi' = NextGame(gi)
         /\ pi' = 0
         /\ passes_arr' = <<>>

\* One pass without a u64 id, or with an id already seen: skipped.
PassSkip ==
    /\ pc = "pass_loop"
    /\ IF IsSome(passes_arr[pi].id)
       THEN /\ AlreadySeen(seen_ids, Unwrap(passes_arr[pi].id))
            /\ dup_skipped' = dup_skipped \cup {Unwrap(passes_arr[pi].id)}
       ELSE UNCHANGED dup_skipped
    /\ AfterPass
    /\ UNCHANGED <<user_id, result, seen_ids, universe_ids, passes, response,
                   games_upstream, games_requests, queried, detail_log, listed,
                   calls, returns, catalog_reply>>

\* One pass with a new id: the id is marked seen, its detail record is
\* requested, and the pass is pushed when the reply carries a price > 0.
PassDetail ==
    /\ pc = "pass_loop"
    /\ IsSome(passes_arr[pi].id)
    /\ ~AlreadySeen(seen_ids, Unwrap(passes_arr[pi].id))
    /\ \E r \in DetailReplies :
        LET id == Unwrap(passes_arr[pi].id)
        IN  /\ seen_ids' = MarkSeen(seen_ids, id, r)
            /\ detail_log' = Append(detail_log, DetailRecord(id, r))
            /\ result' = PushDetail(result, id, PassName(passes_arr[pi]), r)
    /\ AfterPass
    /\ UNCHANGED <<user_id, universe_ids, passes, response, games_upstream,
                   games_requests, queried, listed, dup_skipped, calls,
                   returns, catalog_reply>>

\* The outer loop is over: the function returns result to get_passes.
ReturnPublic ==
    /\ pc = "game_loop"
    /\ gi > Len(universe_ids)
    /\ pc' = "check"
    /\ passes' = result
    /\ returns' = Append(returns, result)
    /\ UNCHANGED <<user_id, result, seen_ids, universe_ids, gi, passes_arr, pi,
                   response, games_upstream, games_requests, queried,
                   detail_log, listed, dup_skipped, calls, catalog_reply>>

\* passes is empty: fetch_passes_from_catalog is called and issues the
\* catalog request.  The locals of the returned function and the record of
\* its calls are gone.
CatalogFallback ==
    /\ pc = "check"
    /\ NeedsFallback(passes)
    /\ pc' = "await_catalog"
    /\ calls' = Append(calls, "catalog")
    /\ result' = <<>>
    /\ seen_ids' = {}
    /\ universe_ids' = <<>>
    /\ gi' = 0
    /\ queried' = <<>>
    /\ detail_log' = <<>>
    /\ listed' = {}
    /\ dup_skipped' = {}
    /\ UNCHANGED <<user_id, passes_arr, pi, passes, response, games_upstream,
                   games_requests, returns, catalog_reply>>

\* The catalog call returns: the function filters the items of the reply
\* and get_passes takes the list as its passes.
RecvCatalog ==
    /\ pc = "await_catalog"
    /\ \E reply \in CatalogReplies :
        /\ catalog_reply' = Some(reply)
        /\ passes' = fetch_passes_from_catalog(reply)
        /\ returns' = Append(returns, fetch_passes_from_catalog(reply))
    /\ pc' = "respond"
    /\ UNCHANGED <<user_id, result, seen_ids, universe_ids, gi, passes_arr, pi,
                   response, games_upstream, games_requests, queried,
                   detail_log, listed, dup_skipped, calls>>

\* The response is built and sent.
Respond ==
    /\ \/ pc = "respond"
       \/ pc = "check" /\ ~NeedsFallback(passes)
    /\ pc' = "done"
    /\ response' = Some(ApiResponse(user_id, passes))
    /\ UNCHANGED <<user_id, result, seen_ids, universe_ids, gi, passes_arr, pi,
                   passes, games_upstream, games_requests, queried, detail_log,
                   listed, dup_skipped, calls, returns, catalog_reply>>

\* The handler returns; its locals are dropped and the next request can be
\* served.
Finish ==
    /\ pc = "done"
    /\ pc' = "idle"
    /\ user_id' = 0
    /\ result' = <<>>
    /\ seen_ids' = {}
    /\ universe_ids' = <<>>
    /\ gi' = 0
    /\ passes' = <<>>
    /\ response' = None
    /\ games_requests' = 0
    /\ queried' = <<>>
    /\ detail_log' = <<>>
    /\ listed' = {}
    /\ dup_skipped' = {}
    /\ calls' = <<>>
    /\ returns' = <<>>
    /\ catalog_reply' = None
    /\ UNCHANGED <<passes_arr, pi, games_upstream>>

Next ==
    \/ Request
    \/ RecvGames
    \/ GamePasses
    \/ PassSkip
    \/ PassDetail
    \/ ReturnPublic
    \/ CatalogFallback
    \/ RecvCatalog
    \/ Respond
    \/ Finish

Spec == Init /\ [][Next]_vars

-----------------------------------------------------------------------------
(* Properties. *)

\* the handler is inside fetch_passes_from_public_games or has returned
\* from it without calling the catalog
InPublicGames == calls = <<"public_games">>

\* a logged detail lookup answered with a decodable body and a price > 0
Pushed(e) == ~e.transport /\ e.decoded /\ e.positive

\* the catalog items the loop would keep if prices were kept at their
\* upstream value: asset type 46, a u64 id seen for the first time, and a
\* price > 0, in upstream order
RECURSIVE CatalogExpected(_, _)
CatalogExpected(items, seen) ==
    IF items = <<>> THEN <<>>
    ELSE LET item == Head(items)
             rest == Tail(items)
         IN  IF item.assetType # Some(46) \/ ~IsSome(item.id)
                THEN CatalogExpected(rest, seen)
             ELSE IF Unwrap(item.id) \in seen
                THEN CatalogExpected(rest, seen)
             ELSE IF ~IsSome(item.price) \/ I64LeqZero(UnwrapOr(item.price, I64Zero))
                THEN CatalogExpected(rest, seen \cup {Unwrap(item.id)})
             ELSE <<[id |-> Unwrap(item.id),
                     name |-> UnwrapOr(item.name, "GamePass"),
                     price |-> Unwrap(item.price)]>>
                    \o CatalogExpected(rest, seen \cup {Unwrap(item.id)})

\* a list of Gamepass records with each i32 price widened to i64
Widened(ps) ==
    [i \in 1..Len(ps) |->
        [id |-> ps[i].id, name |-> ps[i].name, price |-> I64FromI32(ps[i].price)]]

\* C1: the passes of a response, and the lists the handler holds on the way
\* to it, never carry the same id twice, whatever duplicates the upstream
\* listings carry.
C1_NoDuplicateIds ==
    /\ NoDuplicates(Ids(result))
    /\ NoDuplicates(Ids(passes))
    /\ IsSome(response) => NoDuplicates(Ids(Unwrap(response).passes))

\* C1 witness: a response with a pass whose id came up again in a listing
\* and was skipped.
C1_Witness ==
    /\ IsSome(response)
    /\ \E i \in 1..Len(Unwrap(response).passes) :
            Unwrap(response).passes[i].id \in dup_skipped

\* C2: every entry of the passes of a response has price > 0.
C2_PricePositive ==
    IsSome(response) =>
        \A i \in 1..Len(Unwrap(response).passes) : Unwrap(response).passes[i].price > 0

\* C3: a pass whose detail record reports a creator other than the
\* requested user is not in the passes of the response.
C3_CreatorMismatchExcluded ==
    (IsSome(response) /\ InPublicGames) =>
        \A i \in 1..Len(detail_log) :
            (IsSome(detail_log[i].creator) /\ Unwrap(detail_log[i].creator) # user_id)
                => detail_log[i].id \notin Range(Ids(Unwrap(response).passes))

\* C4: the sources are called in a fixed order; the catalog is called if
\* and only if the public-games source returned an empty list; the passes
\* of the response are the list the last source called returned; no
\* response is sent while an empty first list has not been followed by the
\* catalog call.
C4_FallbackOrder ==
    /\ calls \in {<<>>, <<"public_games">>, <<"public_games", "catalog">>}
    /\ Len(returns) <= Len(calls)
    /\ Len(calls) = 2 => (Len(returns) >= 1 /\ returns[1] = <<>>)
    /\ IsSome(response) =>
        /\ Len(returns) = Len(calls)
        /\ Len(calls) >= 1
        /\ (returns[1] = <<>>) <=> (calls = <<"public_games", "catalog">>)
        /\ Unwrap(response).passes = returns[Len(returns)]

\* C4 witness: a response after the public-games source returned nothing
\* and the catalog returned passes.
C4_Witness ==
    /\ IsSome(response)
    /\ calls = <<"public_games", "catalog">>
    /\ returns[1] = <<>>
    /\ Unwrap(response).passes # <<>>

\* C5: whatever the upstream calls did, the handler is never stuck, and the
\* response it sends has ok = true, the requested userId, and count equal to
\* the length of passes; passes is empty when every source returned nothing.
C5_AlwaysOk ==
    /\ pc # "idle" => ENABLED Next
    /\ IsSome(response) =>
        /\ Unwrap(response).ok = TRUE
        /\ Unwrap(response).userId = user_id
        /\ user_id \in Users
        /\ Unwrap(response).count = Len(Unwrap(response).passes)
        /\ (\A i \in 1..Len(returns) : returns[i] = <<>>)
                => Unwrap(response).passes = <<>>

\* C5 witness: a response sent after the public-games source found no game
\* and the catalog call ended in a transport error.
C5_Witness ==
    /\ IsSome(response)
    /\ calls = <<"public_games", "catalog">>
    /\ universe_ids = <<>>
    /\ IsSome(catalog_reply)
    /\ Unwrap(catalog_reply).fault = "transport"
    /\ Unwrap(response).count = 0

\* C6: a games listing of k pages is read with k listing requests, and the
\* games of every page are the ones enumerated for passes.
C6_AllPagesRequested ==
    [][(pc = "await_games" /\ pc' = "game_loop") =>
            /\ games_requests' = Len(Unwrap(games_upstream).pages)
            /\ universe_ids' = CollectUniverseIds(Flatten(Unwrap(games_upstream).pages))]_vars

\* C7: a pass whose detail lookup ended in a transport error, a non-success
\* status or an undecodable body is not in the passes of the response.
C7_FailedDetailExcluded ==
    (IsSome(response) /\ InPublicGames) =>
        \A i \in 1..Len(detail_log) :
            (detail_log[i].transport \/ ~detail_log[i].success \/ ~detail_log[i].decoded)
                => detail_log[i].id \notin Range(Ids(Unwrap(response).passes))

\* the universe ids of the game-passes listing calls made, in order
QueriedIds == [i \in 1..Len(queried) |-> queried[i].universe_id]

\* the pass ids whose detail record was requested
LookedUp == {detail_log[i].id : i \in 1..Len(detail_log)}

\* C8: a failed game-passes call or detail lookup never ends the
\* aggregation: the games listed are queried one by one in listing order,
\* all of them by the time the function returns; every pass id they list
\* has had its detail lookup by then; and every pass whose lookup succeeded
\* with a price > 0 is in the result.
C8_FailuresSkipOnlyThemselves ==
    /\ pc = "game_loop" =>
            QueriedIds = SubSeq(universe_ids, 1, Len(QueriedIds))
                /\ Len(QueriedIds) = gi - 1
    /\ pc = "pass_loop" =>
            QueriedIds = SubSeq(universe_ids, 1, gi)
    /\ (pc \in {"check", "done"} /\ InPublicGames) =>
            /\ QueriedIds = universe_ids
            /\ listed \subseteq LookedUp
            /\ passes = result
    /\ InPublicGames =>
            \A i \in 1..Len(detail_log) :
                (detail_log[i].success /\ Pushed(detail_log[i]))
                    => detail_log[i].id \in Range(Ids(result))

\* C8 witness: a response for two games, the first of which failed to list
\* its passes, with one detail lookup lost to a transport error and another
\* pass in the response.
C8_Witness ==
    /\ IsSome(response)
    /\ InPublicGames
    /\ Len(queried) = 2
    /\ queried[1].failed
    /\ ~queried[2].failed
    /\ \E i \in 1..Len(detail_log) : detail_log[i].transport
    /\ \E i \in 1..Len(detail_log) :
            /\ detail_log[i].success
            /\ Pushed(detail_log[i])
            /\ detail_log[i].id \in Range(Ids(Unwrap(response).passes))

\* C9: when the public-games source yields nothing and the catalog call
\* succeeds, the passes of the response are the catalog items of asset type
\* 46 with an id and a price > 0, first occurrence of each id, in upstream
\* order, as upstream gave them.
C9_CatalogExact ==
    (/\ IsSome(response)
     /\ calls = <<"public_games", "catalog">>
     /\ Unwrap(catalog_reply).fault = "none") =>
        Widened(Unwrap(response).passes)
            = CatalogExpected(Unwrap(catalog_reply).items, {})

\* C10: within one call a pass id has its detail record requested at most
\* once; seen_ids is exactly the ids requested in this call, empty when the
\* call starts; a pass whose lookup did not yield a price > 0 is not in the
\* result, however often its id comes up again.
C10_SeenBeforeLookup ==
    /\ \A i, j \in 1..Len(detail_log) :
            detail_log[i].id = detail_log[j].id => i = j
    /\ pc = "await_games" => (seen_ids = {} /\ result = <<>> /\ detail_log = <<>>)
    /\ InPublicGames =>
            /\ seen_ids = LookedUp
            /\ dup_skipped \subseteq seen_ids
            /\ \A i \in 1..Len(detail_log) :
                    ~Pushed(detail_log[i])
                        => detail_log[i].id \notin Range(Ids(result))

\* C10 witness: a response in which a pass whose lookup was dropped came up
\* again, was skipped, and is absent, while another pass is present.
C10_Witness ==
    /\ IsSome(response)
    /\ InPublicGames
    /\ Unwrap(response).passes # <<>>
    /\ \E i \in 1..Len(detail_log) :
            /\ ~Pushed(detail_log[i])
            /\ detail_log[i].id \in dup_skipped
            /\ detail_log[i].id \notin Range(Ids(Unwrap(response).passes))

====
